---- MODULE Spec2Model ----
(***************************************************************************)
(* Process Simulation API (src/main.py, src/schemas.py): a process         *)
(* catalog that is seeded on first read and an activity log over a         *)
(* document store.  Every HTTP handler is one action of Spec; RaceSpec     *)
(* runs two get_process / seed_process requests store call by store call.  *)
(***************************************************************************)
EXTENDS Integers, Sequences, FiniteSets, TLC

\* ------------------------------------------------------------------ bounds
MaxTime == 1          \* the clock runs over 0..MaxTime
MaxAppends == 1       \* upload / assign / action calls that store a record
TicksPerSecond == 2   \* clock ticks in one second (datetime.replace(microsecond=0))

\* ------------------------------------------------------------ input domains
\* Optional values are sequences of length <= 1: <<>> is None / omitted.
None == <<>>
Some(v) == <<v>>
Truthy(o) == o /= None /\ o[1] /= ""

\* What a request body names: (stage_key, item_key, actor); the actor is
\* omitted in the first.
Targets == {
  [stage_key |-> "delivery", item_key |-> "handover", actor |-> None],
  [stage_key |-> "initiation", item_key |-> "requirements", actor |-> Some("qa.lead")]}
Filenames == {"BRD_v1.2.pdf"}
Assignees == {"liam.k"}
ActionInputs == {"download", "review", "decision", "note", "approve"}
NoteInputs == {None, Some("please clarify scope")}
StageFilters == {None, Some(""), Some("delivery")}
ItemFilters == {None, Some(""), Some("handover")}
Requests == {1, 2}

\* ------------------------------------------------------------- static data
DEFAULT_PROCESS ==
  [key |-> "default",
   name |-> "Product Delivery Lifecycle",
   stages |-> <<
     [key |-> "initiation", title |-> "Initiation",
      description |-> "Kick-off and context setup",
      items |-> <<
        [key |-> "requirements", title |-> "Requirement Document", optional |-> FALSE],
        [key |-> "concept", title |-> "Concept Design Document", optional |-> FALSE],
        [key |-> "sqp", title |-> "Software Quality Plan", optional |-> FALSE],
        [key |-> "poc", title |-> "Optional POC Scope", optional |-> TRUE] >>],
     [key |-> "review", title |-> "Review & Approval",
      description |-> "Assignments, downloads, reviews and decisions",
      items |-> <<
        [key |-> "doc_review", title |-> "Document Review", optional |-> FALSE] >>],
     [key |-> "delivery", title |-> "Delivery",
      description |-> "Handover and sign-off",
      items |-> <<
        [key |-> "handover", title |-> "Final Handover", optional |-> FALSE] >>] >>]

\* One mock event: (etype, msg, actor, meta).  Floats are kept as their text,
\* and the non-breaking hyphen of "burn-down" is written as "-".
Ev(etype, msg, actor, meta) ==
  [type |-> etype, message |-> msg, actor |-> actor, meta |-> meta]

events == <<
  [stage_key |-> "initiation", item_key |-> "requirements", actions |-> <<
    Ev("upload", "requester uploaded BRD_v1.2.pdf", "olivia.r",
       Some([filename |-> "BRD_v1.2.pdf", size |-> 523441])),
    Ev("assignment", "admin assigned liam.k to review", "admin",
       Some([assignee |-> "liam.k"])),
    Ev("download", "liam.k downloaded the document", "liam.k", None),
    Ev("review", "liam.k reviewed the document", "liam.k", Some([score |-> "0.92"])),
    Ev("note", "qa.lead left a note: please clarify scope for module X", "qa.lead",
       Some([note |-> "please clarify scope for module X"])),
    Ev("decision", "qa.lead made a decision", "qa.lead",
       Some([decision |-> "approve with comments"])) >>],
  [stage_key |-> "initiation", item_key |-> "concept", actions |-> <<
    Ev("upload", "requester uploaded Concept_Figma_Link.txt", "ava.m",
       Some([filename |-> "Concept_Figma_Link.txt"])),
    Ev("assignment", "admin assigned sophia.j to review", "pm.admin",
       Some([assignee |-> "sophia.j"])),
    Ev("download", "sophia.j downloaded the document", "sophia.j", None),
    Ev("review", "sophia.j reviewed the document", "sophia.j", Some([score |-> "0.88"])),
    Ev("note", "pm.admin left a note: explore alt color palette", "pm.admin",
       Some([note |-> "explore alt color palette"])) >>],
  [stage_key |-> "initiation", item_key |-> "sqp", actions |-> <<
    Ev("upload", "requester uploaded SQP_v0.9.docx", "noah.t",
       Some([filename |-> "SQP_v0.9.docx"])),
    Ev("assignment", "compliance.admin assigned jack.chen to review", "compliance.admin",
       Some([assignee |-> "jack.chen"])),
    Ev("download", "jack.chen downloaded the document", "jack.chen", None),
    Ev("note", "jack.chen left a note: need threat model section", "jack.chen",
       Some([note |-> "need threat model section"])),
    Ev("review", "jack.chen reviewed the document", "jack.chen", Some([score |-> "0.75"])),
    Ev("decision", "compliance.admin made a decision", "compliance.admin",
       Some([decision |-> "changes requested"])) >>],
  [stage_key |-> "initiation", item_key |-> "poc", actions |-> <<
    Ev("upload", "requester uploaded POC_outline.md", "mia.p",
       Some([filename |-> "POC_outline.md"])),
    Ev("assignment", "admin assigned lucas.b to review", "admin",
       Some([assignee |-> "lucas.b"])),
    Ev("download", "lucas.b downloaded the document", "lucas.b", None),
    Ev("note", "lucas.b left a note: optional, but useful for risk burn-down", "lucas.b",
       Some([note |-> "optional, but useful for risk burn-down"])) >>],
  [stage_key |-> "review", item_key |-> "doc_review", actions |-> <<
    Ev("assignment", "qa.lead assigned amelia.v to review", "qa.lead",
       Some([assignee |-> "amelia.v"])),
    Ev("download", "amelia.v downloaded the document", "amelia.v", None),
    Ev("review", "amelia.v reviewed the document", "amelia.v", Some([score |-> "0.97"])),
    Ev("decision", "qa.lead made a decision", "qa.lead", Some([decision |-> "approved"])),
    Ev("note", "qa.lead left a note: proceeding to delivery", "qa.lead",
       Some([note |-> "proceeding to delivery"])) >>],
  [stage_key |-> "delivery", item_key |-> "handover", actions |-> <<
    Ev("upload", "requester uploaded handover_package.zip", "ethan.s",
       Some([filename |-> "handover_package.zip", size |-> 5234102])),
    Ev("download", "pm.admin downloaded the document", "pm.admin", None),
    Ev("note", "pm.admin left a note: scheduling training", "pm.admin",
       Some([note |-> "scheduling training"])),
    Ev("decision", "pm.admin made a decision", "pm.admin",
       Some([decision |-> "signed off"])) >> ] >>

extra_notes == <<
  [stage_key |-> "initiation", item_key |-> "requirements",
   note |-> "risk: data migration complexity"],
  [stage_key |-> "initiation", item_key |-> "concept",
   note |-> "consider accessibility WCAG 2.2"],
  [stage_key |-> "delivery", item_key |-> "handover",
   note |-> "need runbook appendix"] >>

\* ------------------------------------------------------------------- state
VARIABLES
  db,            \* TRUE iff the store handle `db` is configured
  process,       \* collection "process", in insertion order
  activitylog,   \* collection "activitylog", in insertion order
  journal,       \* every activitylog document as create_document stored it
  now,           \* the wall clock
  appends,       \* upload / assign / action calls that stored a record
  logsSeeded,    \* seed_process calls that returned logs_seeded = true
  materialized,  \* a get_process or seed_process call has replied from the store
  response,      \* the last handler's request and reply
  rq             \* RaceSpec: per request, its handler, position and locals

vars == <<db, process, activitylog, journal, now, appends, logsSeeded,
          materialized, response, rq>>

\* ------------------------------------------------------- schemas and store
\* schemas.ActivityLog: created_at is None until the store stamps it.
ActivityLog(process_key, stage_key, item_key, type, message, actor, meta) ==
  [process_key |-> process_key, stage_key |-> stage_key, item_key |-> item_key,
   type |-> type, message |-> message, actor |-> actor, meta |-> meta,
   created_at |-> None]

\* schemas.Process(**DEFAULT_PROCESS)
Process(d) == [key |-> d.key, name |-> d.name, stages |-> d.stages]

\* The _id the store gives the next document of a collection: unique within
\* the collection, from 1 upwards (no document is ever deleted).
next_id(coll) == Len(coll) + 1

\* database.create_document: appends the document with a fresh _id and with
\* created_at / updated_at set to the time of insertion.
create_document(coll, data, t) ==
  Append(coll, [_id |-> next_id(coll), created_at |-> t, updated_at |-> t] @@ data)

\* the _id create_document returns
inserted_id(coll) == coll[Len(coll)]._id

\* collection.find({field: value}) for the one-field queries of the handlers
find_key(coll, k) == SelectSeq(coll, LAMBDA d : d.key = k)
find_process_key(coll, k) == SelectSeq(coll, LAMBDA d : d.process_key = k)

\* cursor.limit(1)
limit1(docs) == IF docs = <<>> THEN <<>> ELSE <<docs[1]>>

\* collection.find_one: the first match or None
find_one(docs) == IF docs = <<>> THEN None ELSE Some(docs[1])

\* collection.update_one({"_id": idv}, {"$set": {"created_at": t}})
update_one(coll, idv, t) ==
  LET hits == {i \in 1..Len(coll) : coll[i]._id = idv}
  IN  IF hits = {} THEN coll
      ELSE LET first == CHOOSE i \in hits : \A j \in hits : i <= j
           IN  [coll EXCEPT ![first].created_at = t]

\* Stands for a value that is no _id of any document: the store assigns
\* _id values from 1 upwards.
NotAnObjectId == 0

\* cursor.sort("created_at", direction): the documents by created_at, largest
\* first for direction -1, documents with equal created_at in insertion order.
RECURSIVE sort(_, _)
sort(docs, direction) ==
  IF docs = <<>> THEN <<>>
  ELSE LET keys == {docs[i].created_at : i \in 1..Len(docs)}
           top == IF direction < 0
                  THEN CHOOSE k \in keys : \A x \in keys : x <= k
                  ELSE CHOOSE k \in keys : \A x \in keys : k <= x
       IN  SelectSeq(docs, LAMBDA d : d.created_at = top)
           \o (CHOOSE s \in {sort(rest, direction) :
                             rest \in {SelectSeq(docs, LAMBDA d : d.created_at /= top)}} : TRUE)

\* The times the store's clock can show at the next insertion: it does not
\* run backwards.  `now` is its last reading.
Clock == now..MaxTime

\* t.replace(microsecond=0)
replace_microsecond_0(t) == t - (t % TicksPerSecond)

\* A pydantic / Form default: used when the field is omitted
OrDefault(o, d) == IF o = None THEN d ELSE o[1]

Reply(op, req, status, body) ==
  [op |-> op, req |-> req, status |-> status, body |-> body]

NotConfigured == [error |-> "Database not configured"]

\* ------------------------------------------------------------- POST /upload
upload_message(actor, filename) == actor \o " uploaded " \o filename

upload_file ==
  \E target \in Targets, filename \in Filenames, t \in Clock :
    LET item_key == target.item_key
        stage_key == target.stage_key
        actorIn == target.actor
        actor == OrDefault(actorIn, "user")
        req == [item_key |-> item_key, stage_key |-> stage_key,
                filename |-> filename, actor |-> actorIn]
        log == ActivityLog(DEFAULT_PROCESS.key, stage_key, item_key, "upload",
                           upload_message(actor, filename), actor,
                           Some([filename |-> filename]))
        stored == create_document(activitylog, log, t)
    IN  /\ IF ~db
           THEN /\ response' = Reply("upload", req, 500, NotConfigured)
                /\ UNCHANGED <<activitylog, journal, appends, now>>
           ELSE /\ appends < MaxAppends
                /\ now' = t
                /\ activitylog' = stored
                /\ journal' = Append(journal, stored[Len(stored)])
                /\ appends' = appends + 1
                /\ response' = Reply("upload", req, 200,
                     [ok |-> TRUE, filename |-> filename, item_key |-> item_key])
        /\ UNCHANGED <<db, process, logsSeeded, materialized, rq>>

\* ------------------------------------------------------------- POST /assign
assign_message(actor, assignee) == actor \o " assigned " \o assignee \o " to review"

assign_reviewer ==
  \E target \in Targets, assignee \in Assignees, t \in Clock :
    LET item_key == target.item_key
        stage_key == target.stage_key
        actorIn == target.actor
        actor == OrDefault(actorIn, "admin")
        req == [item_key |-> item_key, stage_key |-> stage_key,
                assignee |-> assignee, actor |-> actorIn]
        log == ActivityLog(DEFAULT_PROCESS.key, stage_key, item_key, "assignment",
                           assign_message(actor, assignee), actor,
                           Some([assignee |-> assignee]))
        stored == create_document(activitylog, log, t)
    IN  /\ IF ~db
           THEN /\ response' = Reply("assign", req, 500, NotConfigured)
                /\ UNCHANGED <<activitylog, journal, appends, now>>
           ELSE /\ appends < MaxAppends
                /\ now' = t
                /\ activitylog' = stored
                /\ journal' = Append(journal, stored[Len(stored)])
                /\ appends' = appends + 1
                /\ response' = Reply("assign", req, 200, [ok |-> TRUE])
        /\ UNCHANGED <<db, process, logsSeeded, materialized, rq>>

\* ------------------------------------------------------------- POST /action
ValidActions == {"download", "review", "decision", "note"}

\* action_message with the note formatted as it is, None included
action_message_raw_note(act, actor, note) ==
  CASE act = "download" -> actor \o " downloaded the document"
    [] act = "review" -> actor \o " reviewed the document"
    [] act = "decision" -> actor \o " made a decision"
    [] act = "note" -> actor \o " left a note: " \o (IF note = None THEN "None" ELSE note[1])

\* the message table of action(); act is one of its keys
action_message(act, actor, note) ==
  CASE act = "download" -> actor \o " downloaded the document"
    [] act = "review" -> actor \o " reviewed the document"
    [] act = "decision" -> actor \o " made a decision"
    [] act = "note" -> actor \o " left a note: " \o (IF Truthy(note) THEN note[1] ELSE "")

\* meta={"note": body.note} if body.note else None
action_meta(note) == IF Truthy(note) THEN Some([note |-> note[1]]) ELSE None

action ==
  \E target \in Targets, act \in ActionInputs, note \in NoteInputs, t \in Clock :
    LET item_key == target.item_key
        stage_key == target.stage_key
        actorIn == target.actor
        actor == OrDefault(actorIn, "assignee")
        req == [item_key |-> item_key, stage_key |-> stage_key, action |-> act,
                note |-> note, actor |-> actorIn]
        log == ActivityLog(DEFAULT_PROCESS.key, stage_key, item_key, act,
                           action_message(act, actor, note), actor, action_meta(note))
        stored == create_document(activitylog, log, t)
    IN  /\ IF ~db
           THEN /\ response' = Reply("action", req, 500, NotConfigured)
                /\ UNCHANGED <<activitylog, journal, appends, now>>
           ELSE IF act \notin ValidActions
           THEN \* the assert raises AssertionError (with asserts stripped the
                \* table lookup raises KeyError): an unhandled exception, which
                \* the framework answers with 500 Internal Server Error
                /\ response' = Reply("action", req, 500,
                                     [error |-> "Internal Server Error"])
                /\ UNCHANGED <<activitylog, journal, appends, now>>
           ELSE /\ appends < MaxAppends
                /\ now' = t
                /\ activitylog' = stored
                /\ journal' = Append(journal, stored[Len(stored)])
                /\ appends' = appends + 1
                /\ response' = Reply("action", req, 200, [ok |-> TRUE])
        /\ UNCHANGED <<db, process, logsSeeded, materialized, rq>>

\* --------------------------------------------------------------- GET /logs
\* logs_query with the item_key filter left out of the query
logs_query_stage_only(coll, stage_key, item_key) ==
  SelectSeq(coll, LAMBDA d :
    /\ d.process_key = DEFAULT_PROCESS.key
    /\ (Truthy(stage_key) => d.stage_key = stage_key[1]))

\* db["activitylog"].find(query): process_key always, stage_key / item_key
\* only when the parameter is truthy
logs_query(coll, stage_key, item_key) ==
  SelectSeq(coll, LAMBDA d :
    /\ d.process_key = DEFAULT_PROCESS.key
    /\ (Truthy(stage_key) => d.stage_key = stage_key[1])
    /\ (Truthy(item_key) => d.item_key = item_key[1]))

\* l["id"] = str(l.pop("_id", ""))
pop_id(l) ==
  [id |-> ToString(l._id), process_key |-> l.process_key, stage_key |-> l.stage_key,
   item_key |-> l.item_key, type |-> l.type, message |-> l.message,
   actor |-> l.actor, meta |-> l.meta, created_at |-> l.created_at,
   updated_at |-> l.updated_at]

\* logs_out sorting with direction 1
logs_out_ascending(coll, stage_key, item_key) ==
  LET logs == sort(logs_query(coll, stage_key, item_key), 1)
  IN  [i \in 1..Len(logs) |-> pop_id(logs[i])]

logs_out(coll, stage_key, item_key) ==
  LET logs == sort(logs_query(coll, stage_key, item_key), -1)
  IN  [i \in 1..Len(logs) |-> pop_id(logs[i])]

get_logs ==
  \E stage_key \in StageFilters, item_key \in ItemFilters :
    LET req == [stage_key |-> stage_key, item_key |-> item_key]
    IN  /\ response' = IF ~db THEN Reply("get_logs", req, 500, NotConfigured)
                       ELSE Reply("get_logs", req, 200,
                                  [logs |-> logs_out(activitylog, stage_key, item_key)])
        /\ UNCHANGED <<db, process, activitylog, journal, now, appends,
                       logsSeeded, materialized, rq>>

\* ------------------------------------------------------------ GET /process
\* response_model=Process of the document without its _id
process_out(doc) == Process(doc)

\* get_process' check: find_one({"key": "default"})
process_lookup(coll) == find_one(find_key(coll, DEFAULT_PROCESS.key))

\* process_ensure without the `if not doc`
process_ensure_always(coll, doc, t) ==
  create_document(coll, Process(DEFAULT_PROCESS), t)

\* process_ensure as an insert-if-absent of the store: one call that checks
\* and inserts
process_ensure_if_absent(coll, doc, t) ==
  IF find_key(coll, DEFAULT_PROCESS.key) = <<>>
  THEN create_document(coll, Process(DEFAULT_PROCESS), t) ELSE coll

\* the collection after `if not doc: create_document(...)`
process_ensure(coll, doc, t) ==
  IF doc = None THEN create_document(coll, Process(DEFAULT_PROCESS), t) ELSE coll

get_process ==
  \E t \in Clock :
    LET doc == process_lookup(process)
        coll == process_ensure(process, doc, t)
        doc2 == IF doc = None THEN process_lookup(coll) ELSE doc
    IN  /\ IF ~db
           THEN /\ response' = Reply("get_process", None, 500, NotConfigured)
                /\ UNCHANGED <<process, now>>
           ELSE /\ process' = coll
                /\ now' = IF coll /= process THEN t ELSE now
                /\ response' = Reply("get_process", None, 200, process_out(doc2[1]))
        /\ materialized' = (materialized \/ db)
        /\ UNCHANGED <<db, activitylog, journal, appends, logsSeeded, rq>>

\* --------------------------------------------------------------- GET /seed
\* the nested loop of _seed_mock_logs visits the events in this order
RECURSIVE mock_logs(_)
mock_logs(evs) ==
  IF evs = <<>> THEN <<>>
  ELSE LET e == Head(evs)
       IN  [i \in 1..Len(e.actions) |->
              ActivityLog(DEFAULT_PROCESS.key, e.stage_key, e.item_key,
                          e.actions[i].type, e.actions[i].message,
                          e.actions[i].actor, e.actions[i].meta)]
           \o mock_logs(Tail(evs))

extra_logs ==
  [i \in 1..Len(extra_notes) |->
     ActivityLog(DEFAULT_PROCESS.key, extra_notes[i].stage_key, extra_notes[i].item_key,
                 "note", "note: " \o extra_notes[i].note, "observer",
                 Some([note |-> extra_notes[i].note]))]

\* backdate filtering on the _id create_document returned
backdate_inserted(coll, inserted, t) == update_one(coll, inserted, t)

\* The backdating statement after each insert.  The inner find_one is given
\* the collection's create_index method as _id: the driver either rejects it
\* (the exception is swallowed) or finds nothing, and update_one then filters
\* on an _id no document has.  The inserted _id is not used.
backdate(coll, inserted, t) == update_one(coll, NotAnObjectId, t)

\* One pass of the first loop's body.  st holds the collection, the journal
\* and the local t.
seed_step(st, log, tnow) ==
  LET stored == create_document(st.coll, log, tnow)
  IN  [coll |-> backdate(stored, inserted_id(stored), st.t),
       journal |-> Append(st.journal, stored[Len(stored)]),
       t |-> replace_microsecond_0(st.t)]

\* The first loop of _seed_mock_logs from the k-th log on.  (The sets of one
\* element bind each pass's result to a name, so that it is computed once.)
RECURSIVE seed_loop(_, _, _, _)
seed_loop(logs, k, st, tnow) ==
  IF k > Len(logs) THEN st
  ELSE CHOOSE r \in {seed_loop(logs, k + 1, next, tnow) :
                     next \in {seed_step(st, logs[k], tnow)}} : TRUE

\* One pass of the second loop's body: create_document alone
extra_step(st, log, tnow) ==
  LET stored == create_document(st.coll, log, tnow)
  IN  [coll |-> stored,
       journal |-> Append(st.journal, stored[Len(stored)]),
       t |-> st.t]

RECURSIVE extra_loop(_, _, _, _)
extra_loop(logs, k, st, tnow) ==
  IF k > Len(logs) THEN st
  ELSE CHOOSE r \in {extra_loop(logs, k + 1, next, tnow) :
                     next \in {extra_step(st, logs[k], tnow)}} : TRUE

\* existing_logs querying a process key no record has
existing_logs_other_key(coll) == limit1(find_process_key(coll, ""))

\* existing_logs of _seed_mock_logs
existing_logs(coll) == limit1(find_process_key(coll, DEFAULT_PROCESS.key))

\* _seed_mock_logs past its checks: both loops
seed_inserts(coll, jrnl, tnow) ==
  CHOOSE r \in {extra_loop(extra_logs, 1, mid, tnow) :
                mid \in {seed_loop(mock_logs(events), 1, st0, tnow) :
                         st0 \in {[coll |-> coll, journal |-> jrnl, t |-> tnow]}}} : TRUE

\* _seed_mock_logs: its return value and the store it leaves
seed_mock_logs(dbOk, coll, jrnl, tnow) ==
  IF ~dbOk \/ existing_logs(coll) /= <<>>
  THEN [ret |-> FALSE, coll |-> coll, journal |-> jrnl]
  ELSE LET st == seed_inserts(coll, jrnl, tnow)
       IN  [ret |-> TRUE, coll |-> st.coll, journal |-> st.journal]

\* seed_process' `existing`
seed_existing(dbOk, coll) ==
  IF dbOk THEN limit1(find_key(coll, DEFAULT_PROCESS.key)) ELSE <<>>

\* seed_ensure without the `not existing`
seed_ensure_always(dbOk, coll, existing, t) ==
  IF dbOk THEN create_document(coll, Process(DEFAULT_PROCESS), t) ELSE coll

\* the collection after `if not existing and db: create_document(...)`
seed_ensure(dbOk, coll, existing, t) ==
  IF existing = <<>> /\ dbOk
  THEN create_document(coll, Process(DEFAULT_PROCESS), t) ELSE coll

seed_process ==
  \E t \in Clock :
    \E r \in {IF db THEN seed_mock_logs(db, activitylog, journal, t)
              ELSE [ret |-> FALSE, coll |-> activitylog, journal |-> journal]} :
      LET existing == seed_existing(db, process)
          coll == seed_ensure(db, process, existing, t)
      IN  /\ now' = IF coll /= process \/ r.ret THEN t ELSE now
          /\ process' = coll
          /\ activitylog' = r.coll
          /\ journal' = r.journal
          /\ logsSeeded' = IF r.ret THEN logsSeeded + 1 ELSE logsSeeded
          /\ response' = Reply("seed", None, 200,
                               [seeded |-> Len(coll) > Len(process),
                                logs_seeded |-> r.ret])
          /\ materialized' = (materialized \/ db)
          /\ UNCHANGED <<db, appends, rq>>

\* ------------------------------------------------------ sequential handlers
NoReply == Reply("none", None, 0, None)
Idle == [r \in Requests |-> [op |-> "none", pc |-> "idle", existing |-> None,
                             seeded |-> FALSE, logs |-> FALSE]]

Init ==
  /\ db \in BOOLEAN
  /\ process = <<>>
  /\ activitylog = <<>>
  /\ journal = <<>>
  /\ now = 0
  /\ appends = 0
  /\ logsSeeded = 0
  /\ materialized = FALSE
  /\ response = NoReply
  /\ rq = Idle

Next ==
  \/ upload_file
  \/ assign_reviewer
  \/ action
  \/ get_logs
  \/ get_process
  \/ seed_process

Spec == Init /\ [][Next]_vars

\* ------------------------------------------- two requests, call by call
\* RaceSpec runs each request of Requests as get_process or seed_process,
\* one store call per step, so that the calls of the two interleave.
RaceOps == {"get_process", "seed"}

race_start(r) ==
  /\ rq[r].pc = "idle"
  /\ \E op \in RaceOps : rq' = [rq EXCEPT ![r].op = op, ![r].pc = "find"]
  /\ UNCHANGED <<db, process, activitylog, journal, now, appends, logsSeeded,
                 materialized, response>>

\* doc = find_one(...) / existing = list(find(...).limit(1))
race_find(r) ==
  /\ rq[r].pc = "find"
  /\ rq' = [rq EXCEPT ![r].pc = "insert",
                      ![r].existing = IF rq[r].op = "get_process"
                                      THEN process_lookup(process)
                                      ELSE seed_existing(db, process)]
  /\ UNCHANGED <<db, process, activitylog, journal, now, appends, logsSeeded,
                 materialized, response>>

\* if not doc: create_document(...) / if not existing and db: create_document(...)
race_insert(r) ==
  /\ rq[r].pc = "insert"
  /\ \E t \in Clock :
       LET coll == IF rq[r].op = "get_process"
                   THEN process_ensure(process, rq[r].existing, t)
                   ELSE seed_ensure(db, process, rq[r].existing, t)
       IN  /\ process' = coll
           /\ now' = IF coll /= process THEN t ELSE now
           /\ rq' = [rq EXCEPT ![r].seeded = coll /= process,
                               ![r].pc = IF rq[r].op = "seed" THEN "logs_find"
                                         ELSE "return"]
  /\ UNCHANGED <<db, activitylog, journal, appends, logsSeeded, materialized, response>>

\* existing_logs = list(find(...).limit(1))
race_logs_find(r) ==
  /\ rq[r].pc = "logs_find"
  /\ rq' = [rq EXCEPT ![r].pc = "logs_insert",
                      ![r].logs = existing_logs(activitylog) = <<>>]
  /\ UNCHANGED <<db, process, activitylog, journal, now, appends, logsSeeded,
                 materialized, response>>

\* the two loops of _seed_mock_logs, unless existing_logs was not empty
race_logs_insert(r) ==
  /\ rq[r].pc = "logs_insert"
  /\ \E t \in Clock :
     \E st \in {IF rq[r].logs THEN seed_inserts(activitylog, journal, t)
                ELSE [coll |-> activitylog, journal |-> journal]} :
       /\ activitylog' = st.coll
       /\ journal' = st.journal
       /\ now' = IF rq[r].logs THEN t ELSE now
  /\ logsSeeded' = IF rq[r].logs THEN logsSeeded + 1 ELSE logsSeeded
  /\ rq' = [rq EXCEPT ![r].pc = "return"]
  /\ UNCHANGED <<db, process, appends, materialized, response>>

\* get_process reads the document again if it inserted it, and both reply
race_return(r) ==
  /\ rq[r].pc = "return"
  /\ response' = IF rq[r].op = "get_process"
                 THEN Reply("get_process", None, 200,
                            process_out(process_lookup(process)[1]))
                 ELSE Reply("seed", None, 200,
                            [seeded |-> rq[r].seeded, logs_seeded |-> rq[r].logs])
  /\ rq' = [rq EXCEPT ![r].pc = "done"]
  /\ materialized' = TRUE
  /\ UNCHANGED <<db, process, activitylog, journal, now, appends, logsSeeded>>

RaceInit == Init /\ db

RaceNext ==
  \E r \in Requests :
    \/ race_start(r)
    \/ race_find(r)
    \/ race_insert(r)
    \/ race_logs_find(r)
    \/ race_logs_insert(r)
    \/ race_return(r)

RaceSpec == RaceInit /\ [][RaceNext]_vars

\* ================================================================== claims
EventTypes == {"upload", "assignment", "download", "review", "decision", "note"}
AppendOps == {"upload", "assign", "action"}
Ok(op) == db /\ response.op = op /\ response.status = 200
Defaults(coll) == {i \in 1..Len(coll) : coll[i].key = "default"}
Last(seq) == seq[Len(seq)]

\* C1: with the store available, an action call whose action is none of
\* download, review, decision, note is answered with a client error
\* (InvalidEventType), and no record of such a type is ever stored.
C1_InvalidActionIsClientError ==
  /\ (db /\ response.op = "action" /\ response.req.action \notin ValidActions)
       => (response.status \in 400..499 /\ response.body.error = "InvalidEventType")
  /\ \A i \in 1..Len(activitylog) : activitylog[i].type \in EventTypes

\* C2: the list get_logs returns, under any filters, is ordered by created_at
\* descending: an event listed before another has created_at >= the other's.
C2_LogsNewestFirst ==
  Ok("get_logs") =>
    \A i, j \in 1..Len(response.body.logs) :
      i < j => response.body.logs[i].created_at >= response.body.logs[j].created_at

\* a reply that lists a newer event before an older one stored before it
C2_Witness ==
  /\ Ok("get_logs")
  /\ Len(response.body.logs) >= 2
  /\ response.body.logs[1].created_at > Last(response.body.logs).created_at
  /\ response.body.logs[1].id = ToString(Last(activitylog)._id)
  /\ logsSeeded = 1 /\ appends >= 1

\* The stored events a get_logs call is to return, as positions in the
\* collection, when applies(f) tells whether the filter value f is applied.
Selected(req, applies(_)) ==
  {i \in 1..Len(activitylog) :
     /\ activitylog[i].process_key = "default"
     /\ (applies(req.stage_key) => activitylog[i].stage_key = req.stage_key[1])
     /\ (applies(req.item_key) => activitylog[i].item_key = req.item_key[1])}

Exactly(req, logs, applies(_)) ==
  /\ Len(logs) = Cardinality(Selected(req, applies))
  /\ {logs[k].id : k \in 1..Len(logs)}
       = {ToString(activitylog[i]._id) : i \in Selected(req, applies)}
  /\ \A k \in 1..Len(logs) :
       \E i \in Selected(req, applies) :
         /\ logs[k].id = ToString(activitylog[i]._id)
         /\ logs[k].stage_key = activitylog[i].stage_key
         /\ logs[k].item_key = activitylog[i].item_key
         /\ logs[k].type = activitylog[i].type
         /\ logs[k].message = activitylog[i].message
         /\ logs[k].created_at = activitylog[i].created_at

Given(f) == f /= None

\* C3 as stated: get_logs returns exactly the stored events of process
\* "default" whose stage_key and item_key equal each filter that is given,
\* the empty string included.
C3_EveryGivenFilterApplies ==
  Ok("get_logs") => Exactly(response.req, response.body.logs, Given)

\* C3 amended: get_logs returns exactly the stored events of process "default"
\* whose stage_key and item_key equal each filter that is given and not empty
\* (an empty filter is treated as absent), and the reply is a subset of the
\* unfiltered reply.
C3_NonEmptyFiltersApply ==
  Ok("get_logs") =>
    /\ Exactly(response.req, response.body.logs, Truthy)
    /\ LET all == logs_out(activitylog, None, None)
       IN  {response.body.logs[k] : k \in 1..Len(response.body.logs)}
             \subseteq {all[k] : k \in 1..Len(all)}

\* an empty stage filter beside an item filter that leaves some events out
C3_Witness ==
  /\ Ok("get_logs")
  /\ response.req.stage_key = Some("")
  /\ response.req.item_key = Some("handover")
  /\ Len(response.body.logs) > 0
  /\ Len(response.body.logs) < Len(activitylog)
  /\ \E k \in 1..Len(response.body.logs) : response.body.logs[k].stage_key /= ""

\* C4: handlers run one after another from the empty store: there is never
\* more than one Process document with key "default", there is exactly one
\* after a seed_process or get_process call, and a seed_process call that
\* follows one of them reports seeded = false and inserts no Process document.
C4_OneDefaultProcess ==
  /\ [](Cardinality(Defaults(process)) <= 1)
  /\ [](materialized => Cardinality(Defaults(process)) = 1)
  /\ [][(materialized /\ response'.op = "seed")
          => (~response'.body.seeded /\ process' = process)]_vars

\* a second seed_process call has replied
C4_Witness ==
  /\ Ok("seed")
  /\ ~response.body.seeded /\ ~response.body.logs_seeded
  /\ logsSeeded = 1 /\ appends = 0
  /\ Cardinality(Defaults(process)) = 1

Template(type, actor, arg) ==
  CASE type = "upload" -> actor \o " uploaded " \o arg
    [] type = "assignment" -> actor \o " assigned " \o arg \o " to review"
    [] type = "download" -> actor \o " downloaded the document"
    [] type = "review" -> actor \o " reviewed the document"
    [] type = "decision" -> actor \o " made a decision"
    [] type = "note" -> actor \o " left a note: " \o arg

\* what a request asks to be logged: type, actor (with the endpoint's default)
\* and the field the template embeds
Asked(op, req) ==
  CASE op = "upload" ->
         [type |-> "upload", actor |-> IF req.actor = None THEN "user" ELSE req.actor[1],
          arg |-> req.filename]
    [] op = "assign" ->
         [type |-> "assignment",
          actor |-> IF req.actor = None THEN "admin" ELSE req.actor[1],
          arg |-> req.assignee]
    [] op = "action" ->
         [type |-> req.action,
          actor |-> IF req.actor = None THEN "assignee" ELSE req.actor[1],
          arg |-> IF req.note = None THEN "" ELSE req.note[1]]

\* C6: a successful upload, assign or action call stores exactly one new
\* record, whose type is the event type and whose message is the template of
\* that type applied to the request's actor and fields (the empty string for
\* an omitted note).
C6_OneRecordWithTemplate ==
  [][(db /\ response'.op \in AppendOps /\ response'.status = 200) =>
       /\ Len(activitylog') = Len(activitylog) + 1
       /\ SubSeq(activitylog', 1, Len(activitylog)) = activitylog
       /\ LET asked == Asked(response'.op, response'.req)
              rec == Last(activitylog')
          IN  /\ rec.type = asked.type
              /\ rec.actor = asked.actor
              /\ rec.message = Template(asked.type, asked.actor, asked.arg)]_vars

\* a note without text was logged for the default actor
C6_Witness ==
  /\ Ok("action")
  /\ response.req.action = "note" /\ response.req.note = None
  /\ response.req.actor = None
  /\ Last(activitylog).message = "assignee left a note: "

\* C7: with the store available, a get_process call that directly follows
\* another returns the same document and leaves the process collection as
\* it was.
C7_GetProcessTwice ==
  [][(Ok("get_process") /\ response'.op = "get_process")
       => (response' = response /\ process' = process)]_vars

\* get_process has replied with the default definition it materialized
C7_Witness ==
  /\ Ok("get_process")
  /\ response.body = Process(DEFAULT_PROCESS)
  /\ Len(process) = 1 /\ activitylog = <<>>

\* C8: with the store available, after a seed_process call the store holds
\* the default Process document and every illustrative log entry, whatever
\* preceded the call.
C8_SeedEnsuresMockLogs ==
  Ok("seed") =>
    /\ Defaults(process) /= {}
    /\ LET wanted == mock_logs(events) \o extra_logs
       IN  \A k \in 1..Len(wanted) :
             \E i \in 1..Len(activitylog) :
               /\ activitylog[i].stage_key = wanted[k].stage_key
               /\ activitylog[i].item_key = wanted[k].item_key
               /\ activitylog[i].type = wanted[k].type
               /\ activitylog[i].message = wanted[k].message
               /\ activitylog[i].actor = wanted[k].actor

\* the requests that are past their insert step and had found no document
Blind == {r \in Requests : rq[r].pc \in {"logs_find", "logs_insert", "return", "done"}
                           /\ rq[r].existing = <<>>}

\* C9: the check and the insert of get_process / seed_process are separate
\* store calls: every request whose check found no document inserts one, so
\* two requests that both check before either inserts leave two Process
\* documents with key "default".
C9_CheckThenInsert == Cardinality(Defaults(process)) = Cardinality(Blind)

\* both requests checked the empty collection and both inserted
C9_Witness ==
  /\ Cardinality(Defaults(process)) = 2
  /\ \A r \in Requests : rq[r].pc = "done" /\ rq[r].existing = <<>>

====
